---- MODULE Spec2Model ----
(***************************************************************************)
(* State-machine model of src/lib/client.js (NightscoutClient).            *)
(*                                                                         *)
(* The client owns a socket.io transport handle (nsSocket), registers one  *)
(* handler per remote event and projects the payloads into facts written   *)
(* to the adapter's state store with adapter.setState.  Every action below *)
(* is one handler (or one promise continuation) run to completion: the     *)
(* JavaScript event loop never interleaves two of them.                    *)
(*                                                                         *)
(* Encodings                                                               *)
(*   - time is counted in ticks, Hr ticks to the hour (the source counts   *)
(*     milliseconds, 36e5 to the hour);                                    *)
(*   - a JavaScript null/undefined in a numeric field is the number null;  *)
(*   - a string that the code searches with includes() is a sequence of    *)
(*     words, and includes() is the contiguous-subsequence test;           *)
(*   - moment(x).diff(y, unit) is the difference truncated toward zero,    *)
(*     the process running at a fixed UTC offset;                          *)
(*   - the value of data && data.level && data.level === n is the text of  *)
(*     the JavaScript value: "true", "false", "0", "null", "undefined".    *)
(***************************************************************************)
EXTENDS Integers, Sequences, FiniteSets, TLC

VARIABLES
    nsSocket,                 \* this.nsSocket: "socket" or "null"
    transport,                \* the socket.io socket: connecting/connected/disconnected/closed
    secretHash,               \* this.secretHash
    previousNotifyTimestamp,  \* this.previousNotifyTimestamp (the Dedup Cursor)
    now,                      \* the clock read by Date.now()
    store,                    \* the adapter's state store, the keys getStateAsync reads back
    pending,                  \* recovery reads (adapter.getStateAsync promises) in flight
    lastEvent,                \* the event whose handler ran last, with its payload
    out,                      \* what that handler did: setState / emit / authorize / close calls
    raised,                   \* TRUE iff that handler threw into the dispatch loop
    connects,                 \* number of transport-level connect events so far
    authorizeLog,             \* every authorize request sent so far
    closeCalls,               \* number of calls of this.close()
    transportCloses,          \* number of calls of nsSocket.close()
    lastAccepted,             \* history: timestamp of the latest data.notification fact
                              \* that carried one, since the last connect event
    delivered,                \* history: timestamps of the notifications delivered
                              \* since the last connect event
    accepted,                 \* history: timestamps of the data.notification facts
                              \* since the last connect event
    acceptedEarlier,          \* history: timestamps of the data.notification facts
                              \* of the connections before the current one
    listeners,                \* the events nsSocket has a handler registered for
    authorized,               \* history: the authorize response of the current
                              \* connection: "none", "read" or "denied"
    caughtBefore              \* history: TRUE iff a dataUpdate pass has ended in the
                              \* catch of line 183

vars == << nsSocket, transport, secretHash, previousNotifyTimestamp, now, store,
           pending, lastEvent, out, raised, connects, authorizeLog, closeCalls,
           transportCloses, lastAccepted, delivered, accepted, acceptedEarlier,
           listeners, authorized, caughtBefore >>

\* the history of the notifications
history == << lastAccepted, delivered, accepted, acceptedEarlier >>

-----------------------------------------------------------------------------
(* Bounds of the model *)

\* ticks per hour
Hr == 2
\* how far the clock may advance past Now0
MaxTick == 1
\* connect events explored
MaxConnects == 2
\* close() calls explored
MaxCloseCalls == 2
\* recovery reads in flight at once
MaxPending == 2
\* site changes of one payload
MaxTreatments == 3
\* treatments of one payload of mixed kinds
MaxMixed == 2

-----------------------------------------------------------------------------
(* JavaScript values *)

null == -1

\* truthiness of a number-or-null
Truthy(x) == x # null /\ x # 0

Day == 24 * Hr

\* the clock when the client is constructed: 50 h and one tick after the epoch
Now0 == 50 * Hr + 1
MaxNow == Now0 + MaxTick

\* Date.now() of the handler that runs next: the clock never runs backwards
ClockNext == now .. MaxNow

-----------------------------------------------------------------------------
(* Construction: lines 7-28 and 52 *)

\* crypto.createHash('sha1').update(secret).digest('hex'): a digest is a
\* string other than the secret it is taken of
Sha1Hex(secret) == "sha1:" \o secret

\* lines 15-23: the credential hash; "" is a missing argument / configuration
DeriveSecretHash(secretHashArg, remoteSecret) ==
    IF secretHashArg = "" /\ remoteSecret # ""
    THEN Sha1Hex(remoteSecret)
    ELSE IF secretHashArg # "" THEN secretHashArg ELSE "null"

Categories == {"data.cage", "data.sage"}
StoreKeys == { c \o s : c \in Categories, s \in {".changed", ".age", ".days", ".hours"} }

\* a state the store may hold for <category>.changed from an earlier run
StoredBefore == Now0 - 30 * Hr

\* one call the handler made: adapter.setState(key, val) with ts when the
\* call passes a {ts, ack, val} record (every call of the source passes
\* ack = true), this.emit(key, val), nsSocket.emit(key, val), nsSocket.close()
Call(op, key, val, ts) == [op |-> op, key |-> key, val |-> val, ts |-> ts]
SetState(key, val, ts) == Call("setState", key, val, ts)

\* the seven kinds of Update Event
UpdateEventKinds == { "notification", "announcement", "alarm", "urgent_alarm",
                      "clear_alarm", "dataUpdate", "retroUpdate" }

\* a client that registers no handler when it is constructed
ListenersDeferred == {}

\* lines 30-190: the handlers nsSocket.on registers while the client is
\* constructed, right after io() has returned the socket
Listeners == { "disconnect", "connect" } \cup UpdateEventKinds

\* the transport hands an event to the handler registered for it, and the
\* server's events reach the client only while the socket is connected
Dispatches(kind) == kind \in listeners /\ transport = "connected"

Init ==
    /\ nsSocket = "socket"
    /\ transport = "connecting"
    /\ \E secretHashArg \in {"", "h1"}, remoteSecret \in {"", "s1"} :
           secretHash = DeriveSecretHash(secretHashArg, remoteSecret)
    /\ previousNotifyTimestamp = null
    /\ now = Now0
    /\ store = [k \in StoreKeys |-> << >>]
    /\ pending = << >>
    /\ lastEvent = [kind |-> "constructed"]
    /\ out = << >>
    /\ raised = FALSE
    /\ connects = 0
    /\ authorizeLog = << >>
    /\ closeCalls = 0
    /\ transportCloses = 0
    /\ lastAccepted = null
    /\ delivered = {}
    /\ accepted = {}
    /\ acceptedEarlier = {}
    /\ listeners = Listeners
    /\ authorized = "none"
    /\ caughtBefore = FALSE

-----------------------------------------------------------------------------
(* Connection lifecycle: lines 30-50 *)

\* an authorize request that leaves the credential hash out
AuthorizeRequestNoSecret == [client |-> "iobroker", secret |-> "null", history |-> 48]

\* lines 40-44: the authorize request
AuthorizeRequest == [client |-> "iobroker", secret |-> secretHash, history |-> 48]

\* lines 30-33: what the disconnect handler does
OnDisconnect == << Call("emit", "connection", FALSE, null) >>

\* a connect handler that keeps the cursor
CursorOnConnectKept == previousNotifyTimestamp

\* line 36: the cursor after a connect event
CursorOnConnect == null

\* lines 39-49: what the connect handler does
OnConnect == << Call("emit", "connection", TRUE, null),
                Call("authorize", "authorize", AuthorizeRequest, null) >>

\* the authorize requests among the calls of a handler
RECURSIVE Authorizes(_)
Authorizes(calls) ==
    IF calls = << >> THEN << >>
    ELSE (IF calls[1].op = "authorize" THEN << calls[1].val >> ELSE << >>)
         \o Authorizes(Tail(calls))

\* lines 35-50: the transport connects (first connection or reconnection)
Connect ==
    /\ transport \in {"connecting", "disconnected"}
    /\ "connect" \in listeners
    /\ connects < MaxConnects
    /\ transport' = "connected"
    /\ previousNotifyTimestamp' = CursorOnConnect
    /\ out' = OnConnect
    /\ authorizeLog' = authorizeLog \o Authorizes(out')
    /\ connects' = connects + 1
    /\ lastEvent' = [kind |-> "connect"]
    /\ raised' = FALSE
    /\ now' \in ClockNext
    /\ lastAccepted' = null
    /\ delivered' = {}
    /\ accepted' = {}
    /\ acceptedEarlier' = acceptedEarlier \cup accepted
    /\ authorized' = "none"
    /\ UNCHANGED << nsSocket, secretHash, store, pending, closeCalls, transportCloses,
                    listeners, caughtBefore >>

\* lines 30-33: the transport loses the connection
Disconnect ==
    /\ Dispatches("disconnect")
    /\ transport' = "disconnected"
    /\ out' = OnDisconnect
    /\ lastEvent' = [kind |-> "disconnect"]
    /\ raised' = FALSE
    /\ now' \in ClockNext
    /\ UNCHANGED << nsSocket, secretHash, previousNotifyTimestamp, store, pending,
                    connects, authorizeLog, closeCalls, transportCloses, history,
                    listeners, authorized, caughtBefore >>

-----------------------------------------------------------------------------
(* close(): lines 192-197 *)

\* a close() that does not clear the handle
CloseRunKeepingHandle(handle) ==
    IF handle # "null"
    THEN [calls |-> 1, handle |-> handle, threw |-> FALSE]
    ELSE [calls |-> 0, handle |-> handle, threw |-> FALSE]

\* a close() that calls close on whatever the handle is
CloseRunUnguarded(handle) ==
    IF handle # "null"
    THEN [calls |-> 1, handle |-> "null", threw |-> FALSE]
    ELSE [calls |-> 0, handle |-> handle, threw |-> TRUE]

\* lines 193-196: what close() does with the handle it finds: the number of
\* calls of nsSocket.close(), the handle left, whether it threw (calling
\* close on null is a TypeError)
CloseRun(handle) ==
    IF handle # "null"
    THEN [calls |-> 1, handle |-> "null", threw |-> FALSE]
    ELSE [calls |-> 0, handle |-> handle, threw |-> FALSE]

\* Socket.close() of socket.io-client fires 'disconnect' synchronously when
\* the socket is connected, so the handler of lines 30-33 runs inside close()
Close ==
    /\ closeCalls < MaxCloseCalls
    /\ closeCalls' = closeCalls + 1
    /\ LET run == CloseRun(nsSocket) IN
        /\ transportCloses' = transportCloses + run.calls
        /\ nsSocket' = run.handle
        /\ raised' = run.threw
        /\ IF run.calls > 0 /\ ~run.threw
           THEN /\ transport' = "closed"
                /\ out' = << Call("close", "nsSocket", null, null) >>
                          \o (IF transport = "connected" THEN OnDisconnect ELSE << >>)
           ELSE /\ out' = << >>
                /\ UNCHANGED transport
    /\ lastEvent' = [kind |-> "close"]
    /\ now' \in ClockNext
    /\ UNCHANGED << secretHash, previousNotifyTimestamp, store, pending, connects,
                    authorizeLog, history, listeners, authorized, caughtBefore >>

-----------------------------------------------------------------------------
(* notification: lines 54-67 *)

JsNull == [nil |-> TRUE]
IsNull(d) == "nil" \in DOMAIN d

TsA == Now0 - Hr
TsB == Now0 - 1

NotificationPayloads ==
    { JsNull } \cup
    { [timestamp |-> t, title |-> "title", message |-> "message"] :
         t \in {null, 0, TsA, TsB} }

\* line 57: the duplicate test
IsDuplicate(data, cursor) ==
    Truthy(data.timestamp) /\ data.timestamp = cursor

\* a handler that forgets to move the cursor
CursorAfterForgotten(data, cursor) == cursor

\* a handler that stores whatever the timestamp field holds
CursorAfterAlways(data, cursor) == data.timestamp

\* lines 61-63: the cursor after an accepted notification
CursorAfter(data, cursor) ==
    IF Truthy(data.timestamp) THEN data.timestamp ELSE cursor

\* lines 64-65: new Date(data.timestamp || undefined).getTime() is NaN without
\* a timestamp, and the fact then carries Date.now()
NotificationFact(data, clock) ==
    SetState("data.notification", << data.title, data.message >>,
             IF Truthy(data.timestamp) THEN data.timestamp ELSE clock)

\* lines 54-67: the handler of notification run on one payload
NotificationHandler(data) ==
    /\ \E clock \in ClockNext :
        /\ now' = clock
        /\ lastEvent' = [kind |-> "notification", data |-> data]
        /\ IF IsNull(data) \/ IsDuplicate(data, previousNotifyTimestamp)
           THEN /\ out' = << >>
                /\ UNCHANGED previousNotifyTimestamp
           ELSE /\ previousNotifyTimestamp' = CursorAfter(data, previousNotifyTimestamp)
                /\ out' = << NotificationFact(data, clock) >>
        /\ lastAccepted' = IF out' # << >> /\ Truthy(data.timestamp)
                           THEN data.timestamp ELSE lastAccepted
        /\ delivered' = IF ~IsNull(data) /\ Truthy(data.timestamp)
                        THEN delivered \cup { data.timestamp } ELSE delivered
        /\ accepted' = IF out' # << >> /\ Truthy(data.timestamp)
                       THEN accepted \cup { data.timestamp } ELSE accepted
        /\ UNCHANGED acceptedEarlier
    /\ raised' = FALSE
    /\ UNCHANGED << nsSocket, transport, secretHash, store, pending, connects,
                    authorizeLog, closeCalls, transportCloses, listeners, authorized,
                    caughtBefore >>

\* a notification event arrives
Notification ==
    /\ Dispatches("notification")
    /\ \E data \in NotificationPayloads : NotificationHandler(data)

-----------------------------------------------------------------------------
(* Age Recalculator: lines 199-251 *)

\* moment's absFloor: the quotient truncated toward zero
Trunc(n, d) == IF n >= 0 THEN n \div d ELSE -((-n) \div d)

\* a.diff(b, 'hours') and a.diff(b, 'days'), a = moment(clock), b = moment(date)
DiffHours(clock, date) == Trunc(clock - date, Hr)
DiffDays(clock, date) == Trunc(clock - date, Day)

\* remainder hours that forget to take the days off
AgeHoursUnreduced(clock, date) == DiffHours(clock, date)

\* lines 218-220 and 243-245: the three figures of one reference timestamp
AgeHours(clock, date) == DiffHours(clock, date) - DiffDays(clock, date) * 24

NoTreatmentInfo == [found |-> FALSE, age |-> 0, days |-> 0, hours |-> 0, millis |-> 0]

\* line 209: the running maximum before the first treatment
PrevDate0 == 0

\* a test that lets future-dated treatments through
AcceptsFuture(treatmentDate, prevDate, clock) ==
    treatmentDate # null /\ treatmentDate > prevDate

\* line 214: is this treatment looked at? (an undefined mills, the number
\* null, compares false with everything)
Accepts(treatmentDate, prevDate, clock) ==
    treatmentDate # null /\ treatmentDate > prevDate /\ treatmentDate <= clock

\* line 222: does an accepted treatment replace the one chosen so far?
Replaces(info, age) == ~info.found \/ (age >= 0 /\ age < info.age)

\* line 212: treatment.mills, undefined when the field is missing
Mills(treatment) == IF "mills" \in DOMAIN treatment THEN treatment.mills ELSE null

\* lines 211-230: the forEach, from treatment i on
RECURSIVE ForEachTreatment(_, _, _, _, _)
ForEachTreatment(treatments, i, clock, prevDate, info) ==
    IF i > Len(treatments) THEN info
    ELSE LET treatmentDate == Mills(treatments[i]) IN
         IF Accepts(treatmentDate, prevDate, clock)
         THEN LET age == DiffHours(clock, treatmentDate) IN
              ForEachTreatment(treatments, i + 1, clock, treatmentDate,
                  IF Replaces(info, age)
                  THEN [found |-> TRUE, age |-> age,
                        days |-> DiffDays(clock, treatmentDate),
                        hours |-> AgeHours(clock, treatmentDate),
                        millis |-> treatmentDate]
                  ELSE info)
         ELSE ForEachTreatment(treatments, i + 1, clock, prevDate, info)

\* lines 199-234
GetLatestTreatmentsInfo(treatments, clock) ==
    ForEachTreatment(treatments, 1, clock, PrevDate0, NoTreatmentInfo)

\* lines 137-144 and 156-163: the facts of a found treatment; new
\* Date(millis).getTime() of a whole number of milliseconds is that number
FreshFacts(baseId, info, clock) ==
    << SetState(baseId \o ".age", info.age, clock),
       SetState(baseId \o ".days", info.days, clock),
       SetState(baseId \o ".hours", info.hours, clock),
       SetState(baseId \o ".changed", info.millis, info.millis) >>

\* a continuation that recomputes from the clock instead of the stored value
RecalcFactsFromNow(baseId, state, clock) ==
    IF state = << >> THEN << >>
    ELSE << SetState(baseId \o ".age", DiffHours(clock, clock), clock),
            SetState(baseId \o ".days", DiffDays(clock, clock), clock),
            SetState(baseId \o ".hours", AgeHours(clock, clock), clock) >>

\* lines 239-250: the continuation of getStateAsync(baseId + '.changed');
\* state is << >> (no state) or << val >>
RecalcFacts(baseId, state, clock) ==
    IF state = << >> THEN << >>
    ELSE LET treatmentDate == state[1] IN
         << SetState(baseId \o ".age", DiffHours(clock, treatmentDate), clock),
            SetState(baseId \o ".days", DiffDays(clock, treatmentDate), clock),
            SetState(baseId \o ".hours", AgeHours(clock, treatmentDate), clock) >>

-----------------------------------------------------------------------------
(* dataUpdate: lines 90-186 *)

\* a JavaScript object is a record holding the fields that are present
Has(obj, field) == field \in DOMAIN obj
NoFields == [f \in {} |-> null]
Optional(field, values) == { NoFields } \cup { field :> v : v \in values }

\* x && x.length of lines 101, 122, 131 and 168
NonEmpty(obj, field) == Has(obj, field) /\ Len(obj[field]) > 0

\* Array.prototype.pop: the element taken and the array left behind
Last(list) == list[Len(list)]
Popped(list) == SubSeq(list, 1, Len(list) - 1)

\* JSON.stringify(x): the text of x
Stringify(x) == [json |-> x]

\* an ISO date string and new Date(string).getTime()
IsoString(t) == [iso |-> t]
DateGetTime(text) == text.iso

\* String.prototype.includes on strings kept as sequences of words
Includes(text, words) ==
    \E k \in 0 .. (Len(text) - Len(words)) :
        \A j \in 1 .. Len(words) : text[k + j] = words[j]

\* lines 132-133: the filter of the site changes; an eventType that is
\* missing or empty is falsy
IsSiteChange(treatment) ==
    /\ Has(treatment, "eventType")
    /\ treatment.eventType # << >>
    /\ Includes(treatment.eventType, << "Site", "Change" >>)

\* lines 148-153: the filter of the sensor starts and changes
IsSensorChange(treatment) ==
    /\ Has(treatment, "eventType")
    /\ treatment.eventType # << >>
    /\ \/ Includes(treatment.eventType, << "Sensor", "Start" >>)
       \/ Includes(treatment.eventType, << "Sensor", "Change" >>)

\* Array.prototype.filter
sitechangeTreatments(list) == SelectSeq(list, IsSiteChange)

sensorTreatments(list) == SelectSeq(list, IsSensorChange)

\* a filter callback reads treatment.eventType: a null entry throws TypeError
HasNullEntry(list) == \E i \in 1 .. Len(list) : IsNull(list[i])

\* the result of one section of the handler: the setState calls it made,
\* and whether it threw
Section(facts, threw) == [facts |-> facts, threw |-> threw]

\* lines 97-99
LastUpdateSection(dataUpdate) ==
    Section(IF Has(dataUpdate, "lastUpdated") /\ Truthy(dataUpdate.lastUpdated)
            THEN << SetState("data.lastUpdate", dataUpdate.lastUpdated, null) >>
            ELSE << >>, FALSE)

\* line 96: const ts = dataUpdate.lastUpdated || now
FactTs(dataUpdate, clock) ==
    IF Has(dataUpdate, "lastUpdated") /\ Truthy(dataUpdate.lastUpdated)
    THEN dataUpdate.lastUpdated ELSE clock

\* lines 105-117
PumpFacts(pump, ts) ==
    << SetState("data.clock", DateGetTime(pump.clock), ts),
       SetState("data.reservoir", pump.reservoir, ts) >>
    \o (IF Has(pump, "iob")
        THEN << SetState("data.bolusiob", pump.iob.bolusiob, ts) >> ELSE << >>)
    \o (IF Has(pump, "battery")
        THEN << SetState("data.pumpBattery", pump.battery.percent, ts) >> ELSE << >>)
    \o (IF Has(pump, "status")
        THEN << SetState("data.bolusing", pump.status.bolusing, ts),
                SetState("data.status", pump.status.status, ts),
                SetState("data.suspended", pump.status.suspended, ts) >>
        ELSE << >>)

\* a device section that pops without looking at the length
DeviceSectionUnguarded(dataUpdate, ts) ==
    IF ~Has(dataUpdate, "devicestatus") THEN Section(<< >>, FALSE)
    ELSE IF dataUpdate.devicestatus = << >> THEN Section(<< >>, TRUE)
    ELSE LET status == Last(dataUpdate.devicestatus) IN
         IF IsNull(status) THEN Section(<< >>, TRUE)
         ELSE Section(<< SetState("data.device", status.device, null) >>, FALSE)

\* lines 101-120
DeviceSection(dataUpdate, ts) ==
    IF ~NonEmpty(dataUpdate, "devicestatus") THEN Section(<< >>, FALSE)
    ELSE LET status == Last(dataUpdate.devicestatus) IN
         IF IsNull(status) THEN Section(<< >>, TRUE)
         ELSE Section(
                << SetState("data.device", status.device, null) >>
                \o (IF Has(status, "pump") THEN PumpFacts(status.pump, ts) ELSE << >>)
                \o (IF Has(status, "uploader")
                    THEN << SetState("data.uploaderBattery", status.uploader.battery, null) >>
                    ELSE << >>),
                FALSE)

\* lines 122-127
GlucoseSection(dataUpdate) ==
    IF ~NonEmpty(dataUpdate, "sgvs") THEN Section(<< >>, FALSE)
    ELSE LET sgv == Last(dataUpdate.sgvs) IN
         IF IsNull(sgv) THEN Section(<< >>, TRUE)
         ELSE Section(<< SetState("data.mgdl", sgv.mgdl, sgv.mills),
                         SetState("data.mgdlScaled", sgv.scaled, sgv.mills),
                         SetState("data.mgdlDirection", sgv.direction, sgv.mills) >>,
                      FALSE)

\* lines 135-146 and 154-165: one category of the treatments
CategoryFacts(baseId, treatments, clock) ==
    LET info == GetLatestTreatmentsInfo(treatments, clock) IN
    IF info.found THEN FreshFacts(baseId, info, clock) ELSE << >>

\* lines 131-166
TreatmentSection(dataUpdate, clock) ==
    IF ~NonEmpty(dataUpdate, "treatments") THEN Section(<< >>, FALSE)
    ELSE IF HasNullEntry(dataUpdate.treatments) THEN Section(<< >>, TRUE)
    ELSE Section(
           CategoryFacts("data.cage", sitechangeTreatments(dataUpdate.treatments), clock)
           \o CategoryFacts("data.sage", sensorTreatments(dataUpdate.treatments), clock),
           FALSE)

\* lines 168-172: the food is filtered and dropped
FoodSection(dataUpdate) ==
    Section(<< >>, NonEmpty(dataUpdate, "food") /\ HasNullEntry(dataUpdate.food))

\* lines 129-130, 145, 164: siteChangeUpdated / sensorUpdated
Updated(baseId, facts) ==
    \E i \in 1 .. Len(facts) : facts[i].key = baseId \o ".changed"

\* lines 174-181: the categories whose recovery is started, in order
RecalcList(facts) ==
    (IF Updated("data.cage", facts) THEN << >> ELSE << "data.cage" >>)
    \o (IF Updated("data.sage", facts) THEN << >> ELSE << "data.sage" >>)

\* lines 94-182: the sections in order; the first that throws ends the pass
\* in the catch of line 183
RECURSIVE RunSections(_, _)
RunSections(sections, done) ==
    IF sections = << >> THEN Section(done, FALSE)
    ELSE IF sections[1].threw THEN Section(done \o sections[1].facts, TRUE)
    ELSE RunSections(Tail(sections), done \o sections[1].facts)

\* lines 102 and 123: the payload object once the handler has popped the last
\* device-status record and the last reading off their arrays
AfterPops(dataUpdate) ==
    [f \in DOMAIN dataUpdate |->
        IF f \in {"devicestatus", "sgvs"} /\ dataUpdate[f] # << >>
        THEN Popped(dataUpdate[f]) ELSE dataUpdate[f]]

\* a mirror that is serialized once the arrays have been popped
RawUpdateAfterPops(dataUpdate) ==
    IF IsNull(dataUpdate) THEN Stringify(dataUpdate)
    ELSE Stringify(AfterPops(dataUpdate))

\* line 93: the value of data.rawUpdate, serialized before anything is popped
RawUpdate(dataUpdate) == Stringify(dataUpdate)

\* a catch that throws the failure on
PropagatesRethrown(threw) == threw

\* lines 183-185: the catch logs the failure and ends the handler; does the
\* failure leave the handler?
Propagates(threw) == FALSE

\* lines 92-185: what the handler does with one payload at one clock reading:
\* out, the setState calls; recalc, the recoveries started; caught, whether
\* the catch of line 183 ran; raised, whether a failure left the handler
\* (everything that can throw is inside the try)
DataUpdateRun(dataUpdate, clock) ==
    LET raw == << SetState("data.rawUpdate", RawUpdate(dataUpdate), null) >> IN
    IF IsNull(dataUpdate)
    THEN [out |-> raw, recalc |-> << >>, caught |-> FALSE, raised |-> FALSE]
    ELSE LET ts == FactTs(dataUpdate, clock)
             run == RunSections(<< LastUpdateSection(dataUpdate),
                                   DeviceSection(dataUpdate, ts),
                                   GlucoseSection(dataUpdate),
                                   TreatmentSection(dataUpdate, clock),
                                   FoodSection(dataUpdate) >>, raw)
         IN  [out |-> run.facts,
              recalc |-> IF run.threw THEN << >> ELSE RecalcList(run.facts),
              caught |-> run.threw,
              raised |-> Propagates(run.threw)]

-----------------------------------------------------------------------------
(* The state store and the recovery reads *)

\* adapter.setState: the store keeps the value of the keys read back later
RECURSIVE Stored(_, _)
Stored(states, calls) ==
    IF calls = << >> THEN states
    ELSE Stored(IF calls[1].op = "setState" /\ calls[1].key \in StoreKeys
                THEN [states EXCEPT ![calls[1].key] = << calls[1].val >>]
                ELSE states,
                Tail(calls))

\* line 237: adapter.getStateAsync(baseId + '.changed') is sent; the store
\* answers later (read) and the continuation runs later still
RecoveryRead(baseId) == [baseId |-> baseId, read |-> FALSE, state |-> << >>]

RECURSIVE RecoveryReads(_)
RecoveryReads(baseIds) ==
    IF baseIds = << >> THEN << >>
    ELSE << RecoveryRead(baseIds[1]) >> \o RecoveryReads(Tail(baseIds))

Without(list, i) == SubSeq(list, 1, i - 1) \o SubSeq(list, i + 1, Len(list))

\* lines 90-186: the handler of dataUpdate run on one payload
DataUpdateHandler(dataUpdate) ==
    /\ \E clock \in ClockNext :
        LET run == DataUpdateRun(dataUpdate, clock) IN
        /\ Len(pending) + Len(run.recalc) <= MaxPending
        /\ now' = clock
        /\ out' = run.out
        /\ store' = Stored(store, run.out)
        /\ pending' = pending \o RecoveryReads(run.recalc)
        /\ lastEvent' = [kind |-> "dataUpdate", data |-> dataUpdate,
                         caught |-> run.caught]
        /\ raised' = run.raised
        /\ caughtBefore' = (caughtBefore \/ run.caught)
    /\ UNCHANGED << nsSocket, transport, secretHash, previousNotifyTimestamp,
                    connects, authorizeLog, closeCalls, transportCloses, history,
                    listeners, authorized >>

\* the store answers a getStateAsync
StoreAnswers ==
    \E i \in 1 .. Len(pending) :
        /\ ~pending[i].read
        /\ pending' = [pending EXCEPT ![i] =
                          [baseId |-> pending[i].baseId, read |-> TRUE,
                           state |-> store[pending[i].baseId \o ".changed"]]]
        /\ lastEvent' = [kind |-> "getState", baseId |-> pending[i].baseId]
        /\ out' = << >>
        /\ raised' = FALSE
        /\ UNCHANGED << nsSocket, transport, secretHash, previousNotifyTimestamp, now,
                        store, connects, authorizeLog, closeCalls, transportCloses,
                        history, listeners, authorized, caughtBefore >>

\* lines 238-251: the continuation of _recalcAges
RecalcAges ==
    \E i \in 1 .. Len(pending), clock \in ClockNext :
        /\ pending[i].read
        /\ now' = clock
        /\ out' = RecalcFacts(pending[i].baseId, pending[i].state, clock)
        /\ store' = Stored(store, out')
        /\ pending' = Without(pending, i)
        /\ lastEvent' = [kind |-> "recalcAges", baseId |-> pending[i].baseId,
                         state |-> pending[i].state]
        /\ raised' = FALSE
        /\ UNCHANGED << nsSocket, transport, secretHash, previousNotifyTimestamp,
                        connects, authorizeLog, closeCalls, transportCloses, history,
                        listeners, authorized, caughtBefore >>

-----------------------------------------------------------------------------
(* The authorize response and the handlers that keep no state: lines 45-49,
   69-88 and 188-190 *)

\* what the server may answer to authorize: read granted, read refused, a
\* response without the field, no response object
AuthorizeResponses == { [read |-> TRUE], [read |-> FALSE], NoFields, JsNull }

\* does the response carry the read capability?
GrantsRead(data) == ~IsNull(data) /\ Has(data, "read") /\ data.read

\* a callback that asks again when read is refused
AuthorizeCallbackRetrying(data) ==
    Section(IF GrantsRead(data) THEN << >>
            ELSE << Call("authorize", "authorize", AuthorizeRequest, null) >>,
            IsNull(data))

\* lines 45-49: the callback of authorize logs a response without read and
\* does nothing else; reading .read of no response is a TypeError
AuthorizeCallback(data) == Section(<< >>, IsNull(data))

\* the response to the authorize request of the current connection arrives
AuthorizeResponse ==
    /\ transport = "connected"
    /\ authorized = "none"
    /\ \E data \in AuthorizeResponses :
        LET run == AuthorizeCallback(data) IN
        /\ out' = run.facts
        /\ raised' = run.threw
        /\ authorizeLog' = authorizeLog \o Authorizes(out')
        /\ authorized' = IF GrantsRead(data) THEN "read" ELSE "denied"
        /\ lastEvent' = [kind |-> "authorized", data |-> data]
    /\ now' \in ClockNext
    /\ UNCHANGED << nsSocket, transport, secretHash, previousNotifyTimestamp, store,
                    pending, connects, closeCalls, transportCloses, history,
                    listeners, caughtBefore >>

\* an event whose handler keeps no state of its own is dispatched: the
\* handler makes its calls, or throws into the dispatch loop
Stateless(kind, data, run) ==
    /\ Dispatches(kind)
    /\ out' = run.facts
    /\ raised' = run.threw
    /\ lastEvent' = [kind |-> kind, data |-> data]
    /\ now' \in ClockNext
    /\ UNCHANGED << nsSocket, transport, secretHash, previousNotifyTimestamp, store,
                    pending, connects, authorizeLog, closeCalls, transportCloses,
                    history, listeners, authorized, caughtBefore >>

AlarmPayloads == { JsNull, NoFields, [level |-> 0], [level |-> 1], [level |-> 2] }

\* a value that is true whenever the payload carries a level
AlarmValueAnyLevel(data, level) ==
    IF IsNull(data) THEN "null"
    ELSE IF ~Has(data, "level") THEN "undefined"
    ELSE IF data.level = 0 THEN "0"
    ELSE "true"

\* lines 74 and 79: data && data.level && data.level === level, the value of
\* the first falsy operand or of the comparison
AlarmValue(data, level) ==
    IF IsNull(data) THEN "null"
    ELSE IF ~Has(data, "level") THEN "undefined"
    ELSE IF data.level = 0 THEN "0"
    ELSE IF data.level = level THEN "true" ELSE "false"

\* lines 72-75
Alarm ==
    \E data \in AlarmPayloads :
        Stateless("alarm", data,
                  Section(<< SetState("data.alarm", AlarmValue(data, 1), null) >>, FALSE))

\* lines 77-80
UrgentAlarm ==
    \E data \in AlarmPayloads :
        Stateless("urgent_alarm", data,
                  Section(<< SetState("data.urgentAlarm", AlarmValue(data, 2), null) >>,
                          FALSE))

ClearAlarmPayloads == { JsNull, NoFields, [clear |-> TRUE], [clear |-> FALSE] }

\* lines 84-87: data.clear of no payload is a TypeError, and the handler has
\* no try around it
ClearAlarmRun(data) ==
    IF IsNull(data) THEN Section(<< >>, TRUE)
    ELSE IF Has(data, "clear") /\ data.clear
    THEN Section(<< SetState("data.alarm", "false", null),
                    SetState("data.urgentAlarm", "false", null) >>, FALSE)
    ELSE Section(<< >>, FALSE)

\* lines 82-88
ClearAlarm ==
    \E data \in ClearAlarmPayloads : Stateless("clear_alarm", data, ClearAlarmRun(data))

PassthroughPayloads == { JsNull, NoFields }

\* lines 69-70: the announcement is logged
Announcement ==
    \E data \in PassthroughPayloads :
        Stateless("announcement", data, Section(<< >>, FALSE))

\* lines 188-190: the retroUpdate is logged
RetroUpdate ==
    \E retroData \in PassthroughPayloads :
        Stateless("retroUpdate", retroData, Section(<< >>, FALSE))

-----------------------------------------------------------------------------
(* Payloads *)

Treatment(eventType, mills) == [eventType |-> eventType, mills |-> mills]

SiteChange == << "Site", "Change" >>
SensorStart == << "Sensor", "Start" >>
SensorChange == << "Sensor", "Change" >>
Note == << "Note" >>

StatusBare == [device |-> "openaps://pump"]
StatusPump == [device |-> "openaps://pump",
               pump |-> [clock |-> IsoString(Now0 - 1), reservoir |-> 100]]
StatusFull == [device |-> "openaps://pump",
               pump |-> [clock |-> IsoString(Now0 - 1), reservoir |-> 100,
                         iob |-> [bolusiob |-> 1],
                         battery |-> [percent |-> 50],
                         status |-> [bolusing |-> FALSE, status |-> "normal",
                                     suspended |-> FALSE]],
               uploader |-> [battery |-> 80]]

Sgv == [mills |-> Now0 - 1, mgdl |-> 120, scaled |-> 120, direction |-> "Flat"]

DeviceLists == { << >>, << StatusBare >>, << StatusPump >>, << StatusFull >>,
                 << StatusBare, StatusFull >>, << JsNull >> }
SgvLists == { << >>, << Sgv >>, << Sgv, JsNull >> }

EventTypes == { SiteChange, SensorStart, SensorChange, Note, << >> }

ListsUpTo(elements, n) == UNION { [1 .. k -> elements] : k \in 0 .. n }

\* payloads that vary the device status, the readings and lastUpdated
DevicePayloads ==
    { a @@ b @@ c @@ d :
        a \in Optional("lastUpdated", {Now0 - 1}),
        b \in Optional("devicestatus", DeviceLists),
        c \in Optional("sgvs", SgvLists),
        d \in Optional("treatments", { << Treatment(SiteChange, Now0 - 5 * Hr) >>,
                                       << JsNull >> }) }

\* payloads that vary the kinds of the treatments: each kind 5 h before Now0
\* or after every clock reading, a treatment without mills, a null entry
MixedTreatments ==
    { Treatment(e, m) : e \in EventTypes, m \in { Now0 - 5 * Hr, MaxNow + 1 } }
    \cup { [eventType |-> SiteChange], JsNull }
MixedPayloads ==
    { d @@ e :
        d \in Optional("treatments", ListsUpTo(MixedTreatments, MaxMixed)),
        e \in Optional("food", { << JsNull >> }) }

\* payloads that vary the timestamps of the site changes: the epoch, 50 h,
\* 10 h, 5 h and one tick, 5 h before Now0, Now0 + 1, after every clock reading
AgeMills == { 0, Now0 - 50 * Hr, Now0 - 10 * Hr, Now0 - 5 * Hr - 1, Now0 - 5 * Hr,
              Now0 + 1, MaxNow + 1 }
AgePayloads ==
    { "treatments" :> t :
        t \in ListsUpTo({ Treatment(SiteChange, m) : m \in AgeMills }, MaxTreatments) }

DataPayloads == { JsNull } \cup DevicePayloads \cup MixedPayloads \cup AgePayloads

\* the payloads of the session specification: one of each kind
SessionPayloads ==
    { JsNull,
      NoFields,
      "treatments" :> << Treatment(SiteChange, Now0 - 5 * Hr) >>,
      ("devicestatus" :> << StatusFull >>) @@ ("sgvs" :> << Sgv >>),
      "devicestatus" :> << JsNull >>,
      ("treatments" :> << Treatment(SiteChange, Now0 - 5 * Hr) >>)
          @@ ("food" :> << JsNull >>) }

\* a dataUpdate event arrives while the transport is connected
DataUpdate ==
    /\ Dispatches("dataUpdate")
    /\ \E dataUpdate \in SessionPayloads : DataUpdateHandler(dataUpdate)

\* the notifications of the specifications that hold the dataUpdate passes as
\* well: no payload, no timestamp, one timestamp
NotificationsBetween ==
    { JsNull } \cup
    { [timestamp |-> t, title |-> "title", message |-> "message"] : t \in {null, TsA} }

NotificationBetween ==
    /\ Dispatches("notification")
    /\ \E data \in NotificationsBetween : NotificationHandler(data)

-----------------------------------------------------------------------------
Next ==
    \/ Connect
    \/ AuthorizeResponse
    \/ Disconnect
    \/ Close
    \/ NotificationBetween
    \/ Announcement
    \/ Alarm
    \/ UrgentAlarm
    \/ ClearAlarm
    \/ DataUpdate
    \/ RetroUpdate
    \/ StoreAnswers
    \/ RecalcAges

Spec == Init /\ [][Next]_vars

-----------------------------------------------------------------------------
(* The session alone: connection lifecycle, close() and every event but
   dataUpdate *)

NextSession ==
    \/ Connect
    \/ AuthorizeResponse
    \/ Disconnect
    \/ Close
    \/ Notification
    \/ Announcement
    \/ Alarm
    \/ UrgentAlarm
    \/ ClearAlarm
    \/ RetroUpdate

SpecSession == Init /\ [][NextSession]_vars

-----------------------------------------------------------------------------
(* The payload decoder alone: a connected client and one dataUpdate event that
   has arrived, of every shape *)

InitData ==
    /\ nsSocket = "socket"
    /\ transport = "connected"
    /\ secretHash = "null"
    /\ previousNotifyTimestamp = null
    /\ now = Now0
    /\ store \in { f \in [StoreKeys -> {<< >>, << StoredBefore >>}] :
                     \A c \in Categories :
                        /\ f[c \o ".age"] = << >>
                        /\ f[c \o ".days"] = << >>
                        /\ f[c \o ".hours"] = << >> }
    /\ pending = << >>
    /\ lastEvent \in { [kind |-> "arrived", data |-> d] : d \in DataPayloads }
    /\ out = << >>
    /\ raised = FALSE
    /\ connects = 1
    /\ authorizeLog = << AuthorizeRequest >>
    /\ closeCalls = 0
    /\ transportCloses = 0
    /\ lastAccepted = null
    /\ delivered = {}
    /\ accepted = {}
    /\ acceptedEarlier = {}
    /\ listeners = Listeners
    /\ authorized = "read"
    /\ caughtBefore = FALSE

\* the event that has arrived is dispatched to the handler
DataUpdateArrived ==
    /\ lastEvent.kind = "arrived"
    /\ Dispatches("dataUpdate")
    /\ DataUpdateHandler(lastEvent.data)

NextData ==
    \/ DataUpdateArrived
    \/ StoreAnswers
    \/ RecalcAges

SpecData == InitData /\ [][NextData]_vars

-----------------------------------------------------------------------------
(* Every event against a store that may hold the site change of an earlier
   run: the dataUpdate passes, their recovery reads, and the other events
   between them *)

InitEvents ==
    /\ nsSocket = "socket"
    /\ transport = "connecting"
    /\ secretHash = "null"
    /\ previousNotifyTimestamp = null
    /\ now = Now0
    /\ store \in { [k \in StoreKeys |->
                      IF k = "data.cage.changed" THEN v ELSE << >>] :
                   v \in { << >>, << StoredBefore >> } }
    /\ pending = << >>
    /\ lastEvent = [kind |-> "constructed"]
    /\ out = << >>
    /\ raised = FALSE
    /\ connects = 0
    /\ authorizeLog = << >>
    /\ closeCalls = 0
    /\ transportCloses = 0
    /\ lastAccepted = null
    /\ delivered = {}
    /\ accepted = {}
    /\ acceptedEarlier = {}
    /\ listeners = Listeners
    /\ authorized = "none"
    /\ caughtBefore = FALSE

NextEvents ==
    \/ Connect
    \/ Disconnect
    \/ Close
    \/ NotificationBetween
    \/ Announcement
    \/ Alarm
    \/ UrgentAlarm
    \/ ClearAlarm
    \/ DataUpdate
    \/ RetroUpdate
    \/ StoreAnswers
    \/ RecalcAges

SpecEvents == InitEvents /\ [][NextEvents]_vars

-----------------------------------------------------------------------------
(* Properties of the session *)

\* the event handled last is a notification that carries a timestamp
TimestampedNotification(event) ==
    /\ event.kind = "notification"
    /\ ~IsNull(event.data)
    /\ Truthy(event.data.timestamp)

\* the calls are exactly one data.notification fact stamped t
OneNotificationFact(calls, t) ==
    /\ Len(calls) = 1
    /\ calls[1].op = "setState"
    /\ calls[1].key = "data.notification"
    /\ calls[1].ts = t

\* C1: within one connection, a notification whose timestamp equals that of
\* the latest accepted timestamped notification emits no data.notification
\* fact, and one whose timestamp differs from the Dedup Cursor emits exactly
\* one, stamped with its timestamp.
C1_Dedup ==
    [][ TimestampedNotification(lastEvent') =>
          LET t == lastEvent'.data.timestamp IN
          /\ (t = lastAccepted => out' = << >>)
          /\ (t # previousNotifyTimestamp => OneNotificationFact(out', t)) ]_vars

\* C1: a repeated timestamp has been discarded
C1_Witness ==
    /\ TimestampedNotification(lastEvent)
    /\ lastEvent.data.timestamp = TsA
    /\ lastAccepted = TsA
    /\ out = << >>

\* C2: every connect event resets the Dedup Cursor to absent, and the first
\* notification with timestamp t delivered after a connect event is emitted,
\* whatever was accepted in the connections before.
C2_ReconnectResets ==
    [][ /\ (lastEvent'.kind = "connect" => previousNotifyTimestamp' = null)
        /\ (TimestampedNotification(lastEvent') =>
              LET t == lastEvent'.data.timestamp IN
              t \notin delivered => OneNotificationFact(out', t)) ]_vars

\* C2: a timestamp accepted in an earlier connection is accepted again as the
\* latest notification of the current one
C2_Witness ==
    /\ TimestampedNotification(lastEvent)
    /\ connects = 2
    /\ lastEvent.data.timestamp \in acceptedEarlier
    /\ OneNotificationFact(out, lastEvent.data.timestamp)
    /\ previousNotifyTimestamp = lastEvent.data.timestamp

\* C8: close() never raises, the transport's close is invoked at most once
\* over the lifetime of the session, and the handle is cleared after every
\* call of close().
C8_CloseIdempotent ==
    /\ transportCloses <= 1
    /\ (lastEvent.kind = "close" => nsSocket = "null" /\ ~raised)
    /\ (closeCalls > 0 => nsSocket = "null" /\ transportCloses = 1)

\* C8: close() has been called a second time
C8_Witness ==
    /\ lastEvent.kind = "close"
    /\ closeCalls = 2
    /\ transportCloses = 1
    /\ nsSocket = "null"
    /\ out = << >>

\* C10: every connect event resets the Dedup Cursor, emits connection-status
\* true and issues exactly one authorize request with the client identifier,
\* the credential hash of the construction and the fixed history depth; every
\* disconnect event emits connection-status false; there are as many
\* authorize requests as connect events, and only connect events issue them.
C10_Handshake ==
    /\ [](/\ Len(authorizeLog) = connects
          /\ \A i \in 1 .. Len(authorizeLog) :
                authorizeLog[i] = [client |-> "iobroker", secret |-> secretHash,
                                   history |-> 48])
    /\ [][ /\ secretHash' = secretHash
           /\ (lastEvent'.kind = "connect" =>
                 /\ previousNotifyTimestamp' = null
                 /\ Len(out') = 2
                 /\ out'[1] = Call("emit", "connection", TRUE, null)
                 /\ out'[2].op = "authorize"
                 /\ out'[2].val = authorizeLog'[Len(authorizeLog')]
                 /\ connects' = connects + 1)
           /\ (lastEvent'.kind = "disconnect" =>
                 out' = << Call("emit", "connection", FALSE, null) >>)
           /\ (lastEvent'.kind # "connect" =>
                 /\ connects' = connects
                 /\ authorizeLog' = authorizeLog) ]_vars

\* C10: a reconnection has sent the second authorize request, with a derived
\* credential hash
C10_Witness ==
    /\ lastEvent.kind = "connect"
    /\ connects = 2
    /\ Len(authorizeLog) = 2
    /\ authorizeLog[2].secret = Sha1Hex("s1")

-----------------------------------------------------------------------------
(* Properties of the payload decoder and the age recalculator *)

\* the setState calls of one key among the calls of a handler
FactsOf(calls, key) == SelectSeq(calls, LAMBDA e : e.op = "setState" /\ e.key = key)
HasFact(calls, key) == FactsOf(calls, key) # << >>
FactVal(calls, key) == FactsOf(calls, key)[1].val

\* a dataUpdate event with a payload has been handled
Handled == lastEvent.kind = "dataUpdate" /\ ~IsNull(lastEvent.data)

\* the treatments of the payload that are records, and those of a category
TreatmentsOf(data) ==
    IF Has(data, "treatments")
    THEN { data.treatments[i] : i \in 1 .. Len(data.treatments) } \ { JsNull }
    ELSE {}
Qualifies(baseId, treatment) ==
    /\ Has(treatment, "eventType")
    /\ IF baseId = "data.cage" THEN treatment.eventType = SiteChange
       ELSE treatment.eventType \in { SensorStart, SensorChange }
Qualifying(baseId, data) == { t \in TreatmentsOf(data) : Qualifies(baseId, t) }

\* the timestamps of the qualifying treatments, those not after the clock
QualifyingMills(baseId, data) ==
    { t.mills : t \in { q \in Qualifying(baseId, data) : Has(q, "mills") } }
NotAfter(mills, clock) == { m \in mills : m <= clock }

\* the age facts of a category are those of the reference timestamp m
AgeFactsAre(calls, baseId, m, clock) ==
    /\ HasFact(calls, baseId \o ".age")
    /\ HasFact(calls, baseId \o ".days")
    /\ HasFact(calls, baseId \o ".hours")
    /\ FactVal(calls, baseId \o ".age") = (clock - m) \div Hr
    /\ FactVal(calls, baseId \o ".days") = (clock - m) \div (24 * Hr)
    /\ FactVal(calls, baseId \o ".hours") =
          (clock - m) \div Hr - 24 * ((clock - m) \div (24 * Hr))

NoCategoryFacts(calls, baseId) ==
    \A suffix \in { ".age", ".days", ".hours", ".changed" } :
        ~HasFact(calls, baseId \o suffix)

\* C3: whenever the qualifying treatments of a category hold timestamps not
\* after now, the pass emits the age, days and hours of the one with the
\* smallest elapsed whole hours, in every order of the payload.
C3_SmallestElapsed ==
    (Handled /\ ~lastEvent.caught) =>
        \A c \in Categories :
            LET cand == NotAfter(QualifyingMills(c, lastEvent.data), now) IN
            cand # {} =>
                \E m \in cand :
                    /\ \A n \in cand : (now - m) \div Hr <= (now - n) \div Hr
                    /\ AgeFactsAre(out, c, m, now)

\* C3 for the timestamps after the epoch, the ones line 214 can accept
C3_AfterEpoch ==
    (Handled /\ ~lastEvent.caught) =>
        \A c \in Categories :
            LET cand == { m \in NotAfter(QualifyingMills(c, lastEvent.data), now) : m > 0 } IN
            cand # {} =>
                \E m \in cand :
                    /\ \A n \in cand : (now - m) \div Hr <= (now - n) \div Hr
                    /\ AgeFactsAre(out, c, m, now)

\* the site changes 50 h, 10 h and 5 h before Now0, in an order other than
\* that of the timestamps, give age 5, days 0, hours 5
C3_Permuted ==
    /\ Handled
    /\ now = Now0
    /\ lastEvent.data = ("treatments" :> << Treatment(SiteChange, Now0 - 5 * Hr),
                                           Treatment(SiteChange, Now0 - 50 * Hr),
                                           Treatment(SiteChange, Now0 - 10 * Hr) >>)
    /\ HasFact(out, "data.cage.age")
    /\ FactVal(out, "data.cage.age") = 5
    /\ FactVal(out, "data.cage.days") = 0
    /\ FactVal(out, "data.cage.hours") = 5

\* C4: a treatment dated after now is never the one chosen: the reference
\* timestamp a pass writes to <category>.changed is that of a qualifying
\* treatment and not after now, and a pass whose qualifying treatments are
\* all dated after now emits no age, days, hours or changed fact for the
\* category.
C4_NoFutureWinner ==
    Handled =>
        \A c \in Categories :
            /\ HasFact(out, c \o ".changed") =>
                  /\ FactVal(out, c \o ".changed") \in QualifyingMills(c, lastEvent.data)
                  /\ FactVal(out, c \o ".changed") <= now
            /\ NotAfter(QualifyingMills(c, lastEvent.data), now) = {} =>
                  NoCategoryFacts(out, c)

\* C4: a payload whose site changes are all future-dated has been handled
C4_Witness ==
    /\ Handled
    /\ ~lastEvent.caught
    /\ QualifyingMills("data.cage", lastEvent.data) = { Now0 + 1, MaxNow + 1 }
    /\ now = Now0
    /\ NoCategoryFacts(out, "data.cage")

\* the recovery reads of a category started and not yet answered
Recovering(baseId) ==
    \E i \in 1 .. Len(pending) : pending[i].baseId = baseId /\ ~pending[i].read

\* C5 as claimed: every pass over a non-null payload that emits no fresh
\* facts for a category starts the recovery of that category.
C5_AlwaysRecovers ==
    Handled =>
        \A c \in Categories : ~HasFact(out, c \o ".changed") => Recovering(c)

\* C5: a pass over a non-null payload that ends without a decode failure and
\* emits no fresh facts for a category starts the recovery of the category;
\* the recovery reads the stored <category>.changed; with a stored record it
\* emits the age, days and hours of that timestamp against now and nothing
\* else, and <category>.changed stays as stored; without one it emits nothing.
C5_Recovery ==
    /\ []((Handled /\ ~lastEvent.caught) =>
            \A c \in Categories : ~HasFact(out, c \o ".changed") => Recovering(c))
    /\ [][ /\ (lastEvent'.kind = "getState" =>
                 \E i \in 1 .. Len(pending) :
                    /\ ~pending[i].read
                    /\ pending'[i].read
                    /\ pending'[i].baseId = lastEvent'.baseId
                    /\ pending'[i].state = store[lastEvent'.baseId \o ".changed"])
           /\ (lastEvent'.kind = "recalcAges" =>
                 LET c == lastEvent'.baseId IN
                 /\ store'[c \o ".changed"] = store[c \o ".changed"]
                 /\ IF lastEvent'.state = << >>
                    THEN out' = << >>
                    ELSE /\ Len(out') = 3
                         /\ AgeFactsAre(out', c, lastEvent'.state[1], now')) ]_vars

\* C5: the recovery of data.cage from a stored changed 30 h before now has
\* emitted age 30, days 1, hours 6
C5_Witness ==
    /\ lastEvent.kind = "recalcAges"
    /\ lastEvent.baseId = "data.cage"
    /\ lastEvent.state = << now - 30 * Hr >>
    /\ FactVal(out, "data.cage.age") = 30
    /\ FactVal(out, "data.cage.days") = 1
    /\ FactVal(out, "data.cage.hours") = 6
    /\ store["data.cage.changed"] = << now - 30 * Hr >>

\* C6: the age, days and hours facts of a category emitted by one pass or by
\* one recovery satisfy age = days * 24 + hours.
C6_AgeSplit ==
    \A c \in Categories :
        HasFact(out, c \o ".age") =>
            FactVal(out, c \o ".age") =
                FactVal(out, c \o ".days") * 24 + FactVal(out, c \o ".hours")

\* C6: a fresh triple of more than two days has been emitted
C6_Witness ==
    /\ Handled
    /\ HasFact(out, "data.cage.changed")
    /\ FactVal(out, "data.cage.changed") = Now0 - 50 * Hr
    /\ FactVal(out, "data.cage.age") >= 50
    /\ FactVal(out, "data.cage.days") = 2

\* C7: for every r <= now, a pass whose only qualifying treatment has
\* mills = r emits the age, days and hours that the recovery emits for a
\* stored changed = r.
C7_FreshEqualsRecovery ==
    (Handled /\ ~lastEvent.caught) =>
        \A r \in 0 .. now :
            (Has(lastEvent.data, "treatments")
             /\ lastEvent.data.treatments = << Treatment(SiteChange, r) >>) =>
                LET recovered == RecalcFacts("data.cage", << r >>, now) IN
                \A j \in 1 .. 3 :
                    /\ HasFact(out, recovered[j].key)
                    /\ FactVal(out, recovered[j].key) = recovered[j].val

\* C7 for the timestamps after the epoch
C7_AfterEpoch ==
    (Handled /\ ~lastEvent.caught) =>
        \A r \in 1 .. now :
            (Has(lastEvent.data, "treatments")
             /\ lastEvent.data.treatments = << Treatment(SiteChange, r) >>) =>
                LET recovered == RecalcFacts("data.cage", << r >>, now) IN
                \A j \in 1 .. 3 :
                    /\ HasFact(out, recovered[j].key)
                    /\ FactVal(out, recovered[j].key) = recovered[j].val

DeviceKeys == { "data.device", "data.clock", "data.reservoir", "data.bolusiob",
                "data.pumpBattery", "data.bolusing", "data.status", "data.suspended",
                "data.uploaderBattery" }

\* the device-status sequence of the payload is empty or absent
NoDeviceStatus(data) == ~Has(data, "devicestatus") \/ data.devicestatus = << >>

\* the latest glucose reading of the payload is projected
GlucoseProjected(data, calls) ==
    (Has(data, "sgvs") /\ data.sgvs # << >>) =>
        /\ HasFact(calls, "data.mgdl")
        /\ HasFact(calls, "data.mgdlScaled")
        /\ HasFact(calls, "data.mgdlDirection")

\* each category of treatments is projected: fresh facts, or its recovery
TreatmentsProjected(data, calls) ==
    \A c \in Categories : HasFact(calls, c \o ".changed") \/ Recovering(c)

\* C9 as claimed: a pass over a payload without device status emits no
\* device fact, does not raise, and projects the readings and the treatments
\* (or their recovery) of the payload.
C9_EmptyDeviceStatusAlways ==
    (Handled /\ NoDeviceStatus(lastEvent.data)) =>
        /\ \A k \in DeviceKeys : ~HasFact(out, k)
        /\ ~raised
        /\ GlucoseProjected(lastEvent.data, out)
        /\ TreatmentsProjected(lastEvent.data, out)

\* C9: a pass over a payload without device status emits no device fact and
\* does not raise, neither into the dispatch loop nor, on account of the
\* device status, into its own catch; unless a later record of the payload
\* fails to decode, it projects the readings and the treatments (or their
\* recovery) of the payload.
C9_EmptyDeviceStatus ==
    (Handled /\ NoDeviceStatus(lastEvent.data)) =>
        /\ \A k \in DeviceKeys : ~HasFact(out, k)
        /\ ~raised
        /\ ~lastEvent.caught =>
              /\ GlucoseProjected(lastEvent.data, out)
              /\ TreatmentsProjected(lastEvent.data, out)
        /\ lastEvent.caught =>
              \/ (NonEmpty(lastEvent.data, "sgvs") /\ IsNull(Last(lastEvent.data.sgvs)))
              \/ (Has(lastEvent.data, "treatments")
                  /\ HasNullEntry(lastEvent.data.treatments))
              \/ (Has(lastEvent.data, "food") /\ HasNullEntry(lastEvent.data.food))

\* C9: a payload with an empty device-status sequence, a reading and a site
\* change has been handled
C9_Witness ==
    /\ Handled
    /\ Has(lastEvent.data, "devicestatus")
    /\ lastEvent.data.devicestatus = << >>
    /\ HasFact(out, "data.mgdl")
    /\ HasFact(out, "data.cage.changed")
    /\ Recovering("data.sage")

-----------------------------------------------------------------------------
(* Properties of the handshake and of the event router *)

\* what the notification handler does with a payload against a cursor
NotificationOutcome(data, cursor, calls) ==
    IF IsNull(data) \/ (Truthy(data.timestamp) /\ data.timestamp = cursor)
    THEN calls = << >>
    ELSE /\ Len(calls) = 1
         /\ calls[1].op = "setState"
         /\ calls[1].key = "data.notification"

\* C11: an authorize response without the read capability closes nothing,
\* emits no connection-status false, issues no further authorize request
\* and leaves the Dedup Cursor alone; the events delivered after it are
\* handled as after a response that grants read: a notification is emitted
\* or discarded by its payload and the cursor alone, a disconnect still
\* emits connection-status false.
C11_AuthFailureNonFatal ==
    [][ /\ (lastEvent'.kind = "authorized" /\ ~GrantsRead(lastEvent'.data)) =>
              /\ authorized' = "denied"
              /\ out' = << >>
              /\ nsSocket' = nsSocket
              /\ transport' = transport
              /\ transportCloses' = transportCloses
              /\ authorizeLog' = authorizeLog
              /\ previousNotifyTimestamp' = previousNotifyTimestamp
              /\ listeners' = listeners
        /\ (lastEvent'.kind = "notification" =>
              /\ ~raised'
              /\ NotificationOutcome(lastEvent'.data, previousNotifyTimestamp, out'))
        /\ (lastEvent'.kind = "disconnect" => out' = OnDisconnect)
        /\ (authorized = "denied" /\ transport = "connected") =>
              /\ ENABLED Notification
              /\ ENABLED Disconnect ]_vars

\* C11: after a refused authorize the connection is open and a notification
\* has been emitted
C11_Witness ==
    /\ authorized = "denied"
    /\ transport = "connected"
    /\ nsSocket = "socket"
    /\ lastEvent.kind = "notification"
    /\ OneNotificationFact(out, TsA)
    /\ previousNotifyTimestamp = TsA
    /\ Len(authorizeLog) = connects

\* the payload's device status, readings, treatments, food decode
DeviceDecodes(data) ==
    ~NonEmpty(data, "devicestatus") \/ ~IsNull(Last(data.devicestatus))
GlucoseDecodes(data) == ~NonEmpty(data, "sgvs") \/ ~IsNull(Last(data.sgvs))
TreatmentsDecode(data) ==
    ~NonEmpty(data, "treatments") \/ ~HasNullEntry(data.treatments)

\* C12: a dataUpdate pass that ends in a decode failure raises nothing into
\* the dispatch loop; the facts of the records before the failing one are
\* emitted and stay in the store; the Dedup Cursor, the transport handle,
\* the transport and the handlers are as before, and no recovery is
\* started; after such a pass a notification is still emitted or discarded
\* by its payload and the cursor, and a later dataUpdate still emits its
\* facts.
C12_DecodeFailureContained ==
    [][ /\ (lastEvent'.kind = "dataUpdate" /\ lastEvent'.caught) =>
              LET d == lastEvent'.data IN
              /\ ~raised'
              /\ out'[1].op = "setState" /\ out'[1].key = "data.rawUpdate"
              /\ (NonEmpty(d, "devicestatus") /\ DeviceDecodes(d)) =>
                     HasFact(out', "data.device")
              /\ (NonEmpty(d, "sgvs") /\ DeviceDecodes(d) /\ GlucoseDecodes(d)) =>
                     HasFact(out', "data.mgdl")
              /\ (DeviceDecodes(d) /\ GlucoseDecodes(d) /\ TreatmentsDecode(d)
                  /\ Has(d, "treatments")
                  /\ d.treatments = << Treatment(SiteChange, Now0 - 5 * Hr) >>) =>
                     /\ HasFact(out', "data.cage.changed")
                     /\ store'["data.cage.changed"] = << Now0 - 5 * Hr >>
                     /\ store'["data.cage.age"] = << FactVal(out', "data.cage.age") >>
              /\ \A k \in StoreKeys : ~HasFact(out', k) => store'[k] = store[k]
              /\ previousNotifyTimestamp' = previousNotifyTimestamp
              /\ nsSocket' = nsSocket
              /\ transport' = transport
              /\ listeners' = listeners
              /\ pending' = pending
        /\ (caughtBefore /\ lastEvent'.kind = "notification") =>
              /\ ~raised'
              /\ NotificationOutcome(lastEvent'.data, previousNotifyTimestamp, out')
        /\ (caughtBefore /\ lastEvent'.kind = "dataUpdate" /\ ~lastEvent'.caught) =>
              /\ ~raised'
              /\ HasFact(out', "data.rawUpdate")
              /\ (~IsNull(lastEvent'.data) /\ Has(lastEvent'.data, "sgvs")) =>
                     HasFact(out', "data.mgdl")
        /\ (caughtBefore /\ transport = "connected") => ENABLED NotificationBetween
      ]_vars

\* C12: a pass has emitted the site change of its payload and then failed
\* on the food; the facts are in the store
C12_Witness ==
    /\ lastEvent.kind = "dataUpdate"
    /\ lastEvent.caught
    /\ ~raised
    /\ HasFact(out, "data.cage.changed")
    /\ store["data.cage.changed"] = << Now0 - 5 * Hr >>
    /\ store["data.cage.age"] = << FactVal(out, "data.cage.age") >>
    /\ previousNotifyTimestamp = TsA
    /\ nsSocket = "socket"

\* C13: whatever the kind of the Update Event and the shape of its payload,
\* no payload included, the handler raises nothing into the dispatch loop.
C13_NeverPropagates ==
    lastEvent.kind \in UpdateEventKinds => ~raised

\* the handlers other than that of clear_alarm raise nothing
C13_OthersContained ==
    (lastEvent.kind \in UpdateEventKinds \ {"clear_alarm"}) => ~raised

\* a clear_alarm event without a payload has thrown out of its handler
C13_ClearAlarmThrows ==
    /\ lastEvent.kind = "clear_alarm"
    /\ IsNull(lastEvent.data)
    /\ raised

-----------------------------------------------------------------------------
(* Properties of the raw mirror and of the reference timestamp *)

\* C14: every dataUpdate pass emits data.rawUpdate, once and before every
\* other fact, and its value is the serialization of the payload as it was
\* received: the last device-status record and the last reading, which the
\* pass pops off their sequences, are still in it.
C14_RawMirror ==
    lastEvent.kind = "dataUpdate" =>
        /\ Len(out) >= 1
        /\ out[1].op = "setState"
        /\ out[1].key = "data.rawUpdate"
        /\ Len(FactsOf(out, "data.rawUpdate")) = 1
        /\ out[1].val = Stringify(lastEvent.data)
        /\ \A f \in {"devicestatus", "sgvs"} :
              (~IsNull(lastEvent.data) /\ NonEmpty(lastEvent.data, f)) =>
                 /\ Len(out[1].val.json[f]) = Len(lastEvent.data[f])
                 /\ Last(out[1].val.json[f]) = Last(lastEvent.data[f])

\* C14: a pass has popped a device-status record and a reading, and the
\* mirror holds both while the payload left behind does not
C14_Witness ==
    /\ Handled
    /\ NonEmpty(lastEvent.data, "devicestatus")
    /\ NonEmpty(lastEvent.data, "sgvs")
    /\ HasFact(out, "data.device")
    /\ HasFact(out, "data.mgdl")
    /\ out[1].key = "data.rawUpdate"
    /\ out[1].val = Stringify(lastEvent.data)
    /\ out[1].val # Stringify(AfterPops(lastEvent.data))

-----------------------------------------------------------------------------
(* Properties of close() and of the recovery reads in flight *)

\* C15: close() can be called in every reachable state and never raises; it
\* leaves the recovery reads in flight as they are, and a read that
\* completes after close() emits the age, days and hours of the stored
\* timestamp it read (nothing without a stored record) and raises nothing.
C15_CloseAnytime ==
    /\ [](closeCalls < MaxCloseCalls => ENABLED Close)
    /\ [](lastEvent.kind = "close" => ~raised)
    /\ []((nsSocket = "null" /\ pending # << >>) =>
              (ENABLED StoreAnswers \/ ENABLED RecalcAges))
    /\ [][ /\ (lastEvent'.kind = "close" => pending' = pending /\ store' = store)
           /\ (lastEvent'.kind = "recalcAges" /\ nsSocket = "null") =>
                 /\ ~raised'
                 /\ IF lastEvent'.state = << >>
                    THEN out' = << >>
                    ELSE /\ Len(out') = 3
                         /\ AgeFactsAre(out', lastEvent'.baseId,
                                        lastEvent'.state[1], now') ]_vars

\* C15: a recovery read that was in flight when close() was called has
\* completed after it and emitted its three facts
C15_Witness ==
    /\ lastEvent.kind = "recalcAges"
    /\ nsSocket = "null"
    /\ transport = "closed"
    /\ closeCalls = 2
    /\ ~raised
    /\ Len(out) = 3
    /\ HasFact(out, "data.cage.age")
    /\ store["data.cage.age"] = << FactVal(out, "data.cage.age") >>

-----------------------------------------------------------------------------
(* Properties of the registration of the handlers *)

\* the calls hold a state fact
EmitsFact(calls) == \E i \in 1 .. Len(calls) : calls[i].op = "setState"

\* C16 as claimed: before the session is established, be it by the first
\* connect event, no handler of an Update Event is registered.
C16_AttachedAfterSession ==
    connects = 0 => listeners \cap UpdateEventKinds = {}

\* C16: the handlers of all Update Event kinds are registered from the
\* construction of the client on, before the first connect event and before
\* any authorize response; none of them has run and no state fact has been
\* emitted before the first connect event, the transport delivering no
\* event before it.
C16_AttachedAtConstruction ==
    /\ UpdateEventKinds \subseteq listeners
    /\ connects = 0 =>
          /\ lastEvent.kind \notin UpdateEventKinds
          /\ ~EmitsFact(out)
          /\ authorized = "none"

\* C16: a notification has been handled and emitted between the connect
\* event and the authorize response
C16_Witness ==
    /\ connects = 1
    /\ authorized = "none"
    /\ "notification" \in listeners
    /\ lastEvent.kind = "notification"
    /\ OneNotificationFact(out, TsA)

-----------------------------------------------------------------------------
(* Properties of the recovery reads interleaved with later passes *)

\* the stored age, days and hours of a category are those of its stored
\* changed timestamp at some clock reading up to now
AgesFollowChanged(baseId) ==
    store[baseId \o ".age"] # << >> =>
        /\ store[baseId \o ".changed"] # << >>
        /\ \E clock \in Now0 .. now :
              LET changed == store[baseId \o ".changed"][1] IN
              /\ store[baseId \o ".age"] = << DiffHours(clock, changed) >>
              /\ store[baseId \o ".days"] = << DiffDays(clock, changed) >>
              /\ store[baseId \o ".hours"] = << AgeHours(clock, changed) >>

\* C17: whenever no recovery read is pending, the stored age, days and
\* hours of each category are derived from the stored changed timestamp of
\* the category, however the recovery reads and the later dataUpdate passes
\* have interleaved.
C17_AgesFollowChanged ==
    pending = << >> => \A c \in Categories : AgesFollowChanged(c)

\* a recovery that read the site change of 30 h ago has completed after a
\* pass that stored the site change of 5 h ago: age 30 against changed 5 h ago
C17_StaleOverwrite ==
    /\ pending = << >>
    /\ store["data.cage.changed"] = << Now0 - 5 * Hr >>
    /\ store["data.cage.age"] = << 30 >>
    /\ store["data.cage.days"] = << 1 >>

-----------------------------------------------------------------------------
(* Properties of the reference timestamp of the fresh path *)

\* the greatest of a non-empty set of timestamps
Maximum(mills) == CHOOSE m \in mills : \A n \in mills : n <= m

\* C18: the reference timestamp a pass writes to <category>.changed is the
\* greatest mills among the qualifying treatments not after now, in every
\* order of the payload, two candidates within the same elapsed whole hour
\* included.
C18_ChangedIsMaximum ==
    (Handled /\ ~lastEvent.caught) =>
        \A c \in Categories :
            HasFact(out, c \o ".changed") =>
                FactVal(out, c \o ".changed") =
                    Maximum(NotAfter(QualifyingMills(c, lastEvent.data), now))

\* the reference timestamp written lies in the same elapsed whole hour as
\* the greatest candidate
C18_SameHourAsMaximum ==
    (Handled /\ ~lastEvent.caught) =>
        \A c \in Categories :
            HasFact(out, c \o ".changed") =>
                LET cand == NotAfter(QualifyingMills(c, lastEvent.data), now) IN
                /\ FactVal(out, c \o ".changed") \in cand
                /\ DiffHours(now, FactVal(out, c \o ".changed")) =
                      DiffHours(now, Maximum(cand))

\* of two site changes within the same elapsed hour, the earlier first, the
\* earlier one has been written to data.cage.changed
C18_EarlierOfTwo ==
    /\ Handled
    /\ now = Now0
    /\ lastEvent.data = ("treatments" :> << Treatment(SiteChange, Now0 - 5 * Hr - 1),
                                           Treatment(SiteChange, Now0 - 5 * Hr) >>)
    /\ HasFact(out, "data.cage.changed")
    /\ FactVal(out, "data.cage.changed") = Now0 - 5 * Hr - 1
    /\ FactVal(out, "data.cage.age") = 5

-----------------------------------------------------------------------------
(* Properties of the Dedup Cursor and of the alarm facts *)

\* the event handled last is a notification with a payload and no timestamp
UntimedNotification(event) ==
    /\ event.kind = "notification"
    /\ ~IsNull(event.data)
    /\ ~Truthy(event.data.timestamp)

\* C19: in every reachable state the Dedup Cursor is absent or the
\* timestamp of the latest emitted notification that carried one since the
\* last connect event; only the connect and the notification handlers
\* change it; a notification without a timestamp is emitted and leaves the
\* cursor as it was.
C19_CursorInvariant ==
    /\ [](previousNotifyTimestamp = lastAccepted)
    /\ [](previousNotifyTimestamp = null \/ previousNotifyTimestamp \in accepted)
    /\ [][ /\ (previousNotifyTimestamp' # previousNotifyTimestamp =>
                   lastEvent'.kind \in {"connect", "notification"})
           /\ (UntimedNotification(lastEvent') =>
                   /\ Len(out') = 1
                   /\ out'[1].op = "setState"
                   /\ out'[1].key = "data.notification"
                   /\ previousNotifyTimestamp' = previousNotifyTimestamp) ]_vars

\* C19: after A was accepted, a notification without a timestamp has been
\* emitted and the cursor is still A
C19_Witness ==
    /\ UntimedNotification(lastEvent)
    /\ Len(out) = 1
    /\ out[1].key = "data.notification"
    /\ out[1].ts = now
    /\ previousNotifyTimestamp = TsA
    /\ accepted = { TsA }

\* the payload carries the level
HasLevel(data, level) == ~IsNull(data) /\ Has(data, "level") /\ data.level = level

\* the calls are one write of the key, true exactly when the flag holds,
\* and a falsy value otherwise
OneAlarmFact(calls, key, flag) ==
    /\ Len(calls) = 1
    /\ calls[1].op = "setState"
    /\ calls[1].key = key
    /\ (calls[1].val = "true") <=> flag
    /\ calls[1].val \in {"true", "false", "0", "null", "undefined"}

\* C20: an alarm event writes data.alarm and nothing else, true exactly
\* when the level of the payload is 1; an urgent_alarm event writes
\* data.urgentAlarm and nothing else, true exactly when the level is 2; a
\* clear_alarm event whose payload has clear set writes false to both, one
\* without clear set writes neither; none of the three changes the Dedup
\* Cursor, the stored facts, the recovery reads or the connection.
C20_AlarmFacts ==
    [][ /\ (lastEvent'.kind = "alarm" =>
               OneAlarmFact(out', "data.alarm", HasLevel(lastEvent'.data, 1)))
        /\ (lastEvent'.kind = "urgent_alarm" =>
               OneAlarmFact(out', "data.urgentAlarm", HasLevel(lastEvent'.data, 2)))
        /\ (lastEvent'.kind = "clear_alarm" =>
               IF ~IsNull(lastEvent'.data) /\ Has(lastEvent'.data, "clear")
                  /\ lastEvent'.data.clear
               THEN out' = << SetState("data.alarm", "false", null),
                              SetState("data.urgentAlarm", "false", null) >>
               ELSE out' = << >>)
        /\ (lastEvent'.kind \in {"alarm", "urgent_alarm", "clear_alarm"} =>
               /\ previousNotifyTimestamp' = previousNotifyTimestamp
               /\ store' = store
               /\ pending' = pending
               /\ nsSocket' = nsSocket
               /\ transport' = transport
               /\ authorizeLog' = authorizeLog) ]_vars

\* C20: an urgent alarm of level 2 has written data.urgentAlarm true while
\* the cursor holds the timestamp of an earlier notification
C20_Witness ==
    /\ lastEvent.kind = "urgent_alarm"
    /\ HasLevel(lastEvent.data, 2)
    /\ out = << SetState("data.urgentAlarm", "true", null) >>
    /\ previousNotifyTimestamp = TsA

====
